---- MODULE Spec2Model ----
(***************************************************************************)
(* Banana Ripeness Detector (src/ayvc.py): one Streamlit script run per    *)
(* user interaction.  main() acquires an image (camera first, then the    *)
(* upload widget), shows it, and on a click of "Process Image" calls       *)
(* analyze_image_with_vision_api, which posts one chat-completion request  *)
(* and re-parses the JSON text found in choices[0].message.content.        *)
(*                                                                         *)
(* Python values are tagged records [k |-> type, v |-> payload].  URL and  *)
(* endpoint strings are sequences of one-character strings.  JSON texts    *)
(* (the response body and the content string inside it) are sequences of   *)
(* lexical tokens, and json.loads is a recursive-descent parser over them. *)
(***************************************************************************)
EXTENDS Integers, Sequences, FiniteSets, TLC

\* ------------------------------------------------------------- bounds
MaxBytes == 1      \* longest image byte buffer a widget delivers
MaxCount == 1      \* largest banana count in a report the server sends

\* ------------------------------------------------- program constants
StatusOK == 200
Timeout == 60

\* ------------------------------------------------------ Python values
PyNone == [k |-> "None", v |-> 0]
PyStr(s) == [k |-> "str", v |-> s]
PyInt(n) == [k |-> "int", v |-> n]
PyBool(b) == [k |-> "bool", v |-> b]
PyNaN == [k |-> "float", v |-> "NaN"]
PyList(s) == [k |-> "list", v |-> s]
PyDict(f) == [k |-> "dict", v |-> f]
EmptyDict == PyDict([x \in {} |-> PyNone])

\* Python truth value testing, as used by `if results:` and `not endpoint`.
Truthy(x) ==
  CASE x.k = "None" -> FALSE
    [] x.k = "str" -> x.v # <<>>
    [] x.k = "int" -> x.v # 0
    [] x.k = "bool" -> x.v
    [] x.k = "float" -> TRUE
    [] x.k = "list" -> x.v # <<>>
    [] x.k = "dict" -> DOMAIN x.v # {}
    [] OTHER -> TRUE

\* The outcome of an expression: a value, or the exception it raised.
Ok(x) == [exc |-> "none", val |-> x]
Raise(e) == [exc |-> e, val |-> PyNone]

\* x.get(key, default): only a dict has the method.
Get(x, key, default) ==
  IF x.k = "dict"
    THEN Ok(IF key \in DOMAIN x.v THEN x.v[key] ELSE default)
    ELSE Raise("AttributeError")

\* x[0]
Index0(x) ==
  CASE x.k = "list" -> IF x.v = <<>> THEN Raise("IndexError") ELSE Ok(x.v[1])
    [] x.k = "str" -> IF x.v = <<>> THEN Raise("IndexError") ELSE Ok(PyStr(<<x.v[1]>>))
    [] x.k = "dict" -> Raise("KeyError")
    [] OTHER -> Raise("TypeError")

\* ------------------------------------------------------- JSON tokens
W(w) == [tk |-> "w", tv |-> w]        \* a bare word: true, null, not, json ...
P(p) == [tk |-> "p", tv |-> p]        \* punctuation: { } [ ] : ,
N(n) == [tk |-> "n", tv |-> n]        \* an integer literal
S(s) == [tk |-> "s", tv |-> s]        \* a string literal holding the text s
Txt(w) == <<W(w)>>                  \* the one-word text w
IsP(tok, p) == tok.tk = "p" /\ tok.tv = p

ParseFail == [ok |-> FALSE, val |-> PyNone, next |-> 0]
Parsed(x, i) == [ok |-> TRUE, val |-> x, next |-> i]

RECURSIVE ParseValue(_, _)
RECURSIVE ParseElems(_, _, _)
RECURSIVE ParseMembers(_, _, _)

\* JSONDecoder.scan_once: one value starting at token i.
ParseValue(s, i) ==
  IF i > Len(s) THEN ParseFail
  ELSE LET tok == s[i] IN
    CASE tok.tk = "n" -> Parsed(PyInt(tok.tv), i + 1)
      [] tok.tk = "s" -> Parsed(PyStr(tok.tv), i + 1)
      [] tok.tk = "w" ->
           CASE tok.tv = "true" -> Parsed(PyBool(TRUE), i + 1)
             [] tok.tv = "false" -> Parsed(PyBool(FALSE), i + 1)
             [] tok.tv = "null" -> Parsed(PyNone, i + 1)
             [] tok.tv = "NaN" -> Parsed(PyNaN, i + 1)
             [] OTHER -> ParseFail
      [] tok.tk = "p" ->
           CASE tok.tv = "[" ->
                  IF i + 1 <= Len(s) /\ IsP(s[i + 1], "]")
                    THEN Parsed(PyList(<<>>), i + 2)
                    ELSE ParseElems(s, i + 1, <<>>)
             [] tok.tv = "{" ->
                  IF i + 1 <= Len(s) /\ IsP(s[i + 1], "}")
                    THEN Parsed(EmptyDict, i + 2)
                    ELSE ParseMembers(s, i + 1, [x \in {} |-> PyNone])
             [] OTHER -> ParseFail
      [] OTHER -> ParseFail

\* JSONArray: elements separated by commas up to the closing bracket.
ParseElems(s, i, acc) ==
  LET r == ParseValue(s, i) IN
  IF ~r.ok \/ r.next > Len(s) THEN ParseFail
  ELSE IF IsP(s[r.next], ",") THEN ParseElems(s, r.next + 1, Append(acc, r.val))
  ELSE IF IsP(s[r.next], "]") THEN Parsed(PyList(Append(acc, r.val)), r.next + 1)
  ELSE ParseFail

\* JSONObject: "key": value pairs; a repeated key keeps the last value.
ParseMembers(s, i, acc) ==
  IF i + 1 > Len(s) \/ s[i].tk # "s" \/ ~IsP(s[i + 1], ":") THEN ParseFail
  ELSE LET r == ParseValue(s, i + 2)
           key == s[i].tv
           put == [x \in DOMAIN acc \cup {key} |-> IF x = key THEN r.val ELSE acc[x]]
       IN IF ~r.ok \/ r.next > Len(s) THEN ParseFail
          ELSE IF IsP(s[r.next], ",") THEN ParseMembers(s, r.next + 1, put)
          ELSE IF IsP(s[r.next], "}") THEN Parsed(PyDict(put), r.next + 1)
          ELSE ParseFail

\* json.loads(x): a str is decoded as exactly one JSON value; anything that
\* is not a str (bytes cannot come out of a JSON body) is a TypeError.
JsonLoads(x) ==
  IF x.k # "str" THEN Raise("TypeError")
  ELSE LET r == ParseValue(x.v, 1) IN
       IF r.ok /\ r.next = Len(x.v) + 1 THEN Ok(r.val) ELSE Raise("JSONDecodeError")


\* ------------------------------------------------- character strings
HTTP == <<"h", "t", "t", "p", ":", "/", "/">>
HTTPS == <<"h", "t", "t", "p", "s", ":", "/", "/">>
DeploymentsPath == <<"/", "o", "p", "e", "n", "a", "i", "/", "d", "e", "p", "l", "o", "y", "m", "e", "n", "t", "s", "/">>
CompletionsPath == <<"/", "c", "h", "a", "t", "/", "c", "o", "m", "p", "l", "e", "t", "i", "o", "n", "s", "?", "a", "p", "i", "-", "v", "e", "r", "s", "i", "o", "n", "=">>
DefaultModel == <<"E", "D", "M", "-", "m", "i", "n", "i">>
DefaultApiVersion == <<"2", "0", "2", "4", "-", "0", "2", "-", "1", "5", "-", "p", "r", "e", "v", "i", "e", "w">>
DataUrlPrefix == <<"d", "a", "t", "a", ":", "i", "m", "a", "g", "e", "/", "j", "p", "e", "g", ";", "b", "a", "s", "e", "6", "4", ",">>
B64Alphabet == <<"A", "B", "C", "D", "E", "F", "G", "H", "I", "J", "K", "L", "M", "N", "O", "P", "Q", "R", "S", "T", "U", "V", "W", "X", "Y", "Z", "a", "b", "c", "d", "e", "f", "g", "h", "i", "j", "k", "l", "m", "n", "o", "p", "q", "r", "s", "t", "u", "v", "w", "x", "y", "z", "0", "1", "2", "3", "4", "5", "6", "7", "8", "9", "+", "/">>

\* str.startswith(prefix)
StartsWith(s, prefix) ==
  Len(s) >= Len(prefix) /\ SubSeq(s, 1, Len(prefix)) = prefix

\* str.rstrip(c): every trailing c is removed.
RECURSIVE RStrip(_, _)
RStrip(s, c) ==
  IF s # <<>> /\ s[Len(s)] = c THEN RStrip(SubSeq(s, 1, Len(s) - 1), c) ELSE s

\* NormalizeEndpoint removing one trailing slash only.
NormalizeEndpointOneSlash(endpoint) ==
  LET withScheme == IF ~(StartsWith(endpoint, HTTP) \/ StartsWith(endpoint, HTTPS))
                      THEN HTTPS \o endpoint
                      ELSE endpoint
  IN IF withScheme # <<>> /\ withScheme[Len(withScheme)] = "/"
       THEN SubSeq(withScheme, 1, Len(withScheme) - 1)
       ELSE withScheme

\* "Ensure endpoint has the right format"
NormalizeEndpoint(endpoint) ==
  LET withScheme == IF ~(StartsWith(endpoint, HTTP) \/ StartsWith(endpoint, HTTPS))
                      THEN HTTPS \o endpoint
                      ELSE endpoint
  IN RStrip(withScheme, "/")

\* "Construct API URL"
ApiUrl(endpoint, model, api_version) ==
  endpoint \o DeploymentsPath \o model \o CompletionsPath \o api_version

\* base64.b64encode: three bytes become four sextets, "=" pads the last group.
RECURSIVE B64Encode(_)
B64Encode(b) ==
  IF b = <<>> THEN <<>>
  ELSE LET n == Len(b)
           b1 == b[1]
           b2 == IF n >= 2 THEN b[2] ELSE 0
           b3 == IF n >= 3 THEN b[3] ELSE 0
           c1 == b1 \div 4
           c2 == (b1 % 4) * 16 + b2 \div 16
           c3 == (b2 % 16) * 4 + b3 \div 64
           c4 == b3 % 64
       IN << B64Alphabet[c1 + 1], B64Alphabet[c2 + 1],
             IF n >= 2 THEN B64Alphabet[c3 + 1] ELSE "=",
             IF n >= 3 THEN B64Alphabet[c4 + 1] ELSE "=" >>
          \o (IF n > 3 THEN B64Encode(SubSeq(b, 4, n)) ELSE <<>>)

\* ------------------------------------------------------ image buffers
\* The object a widget returns: an UploadedFile (a BytesIO) over the bytes.
UploadedFile(b) == [k |-> "UploadedFile", v |-> b]
ByteValues == {0, 255}
ByteSeqs == UNION {[1..n -> ByteValues] : n \in 0..MaxBytes}
WidgetValues == {PyNone} \cup {UploadedFile(b) : b \in ByteSeqs}

\* The bytes open with an image signature (0xFF starts a JPEG marker).
HasSignature(b) == b # <<>> /\ b[1] = 255

\* cv2.imdecode: the pixel grid of a readable image, None for bytes it cannot
\* read.  On an empty buffer the build decides: it asserts (strict) or gives None.
Imdecode(b, strict) ==
  IF b = <<>> THEN (IF strict THEN Raise("cv2.error") ELSE Ok(PyNone))
  ELSE IF HasSignature(b) THEN Ok([k |-> "ndarray", v |-> Tail(b)])
  ELSE Ok(PyNone)

\* The body shared by capture_image and upload_image: (img, buffer) or (None, None).
ReadWidget(buffer, strict) ==
  IF buffer # PyNone
    THEN LET d == Imdecode(buffer.v, strict) IN
         [exc |-> d.exc, img |-> d.val, file |-> buffer]
    ELSE [exc |-> "none", img |-> PyNone, file |-> PyNone]

\* st.error(message); code carries the status code of "API Error: <code>".
Err(msg) == [msg |-> msg, code |-> 0]
ApiError(status) == [msg |-> "API Error", code |-> status]
MissingConfiguration == Err("Missing API configuration. Please check your secrets.toml file.")
ParseFailure == Err("Failed to parse response as JSON")
RequestFailure == Err("Error in API request")
EncodeFailure == Err("Error encoding image")
AnalysisFailure == Err("Failed to analyze the image. Please check your configuration and try again.")

encode_image_to_base64(image_file) ==
  CASE image_file.k = "UploadedFile" -> [val |-> PyStr(B64Encode(image_file.v)), errs |-> <<>>]
    [] image_file.k = "bytes" -> [val |-> PyStr(B64Encode(image_file.v)), errs |-> <<>>]
    [] OTHER -> [val |-> PyNone, errs |-> <<EncodeFailure>>]

\* ConfigMissing with `and` in place of `or`.
ConfigMissingBothOnly(endpoint, api_key) == ~Truthy(endpoint) /\ ~Truthy(api_key)

\* "Check if required settings are available"
ConfigMissing(endpoint, api_key) == ~Truthy(endpoint) \/ ~Truthy(api_key)

\* ExtractContent with the .get("message", {}) step left out.
ExtractContentNoMessage(result) ==
  LET choices == Get(result, Txt("choices"), PyList(<<EmptyDict>>)) IN
  IF choices.exc # "none" THEN choices
  ELSE LET first == Index0(choices.val) IN
  IF first.exc # "none" THEN first
  ELSE Get(first.val, Txt("content"), PyStr(<<P("{"), P("}")>>))

\* result.get("choices", [{}])[0].get("message", {}).get("content", "{}")
ExtractContent(result) ==
  LET choices == Get(result, Txt("choices"), PyList(<<EmptyDict>>)) IN
  IF choices.exc # "none" THEN choices
  ELSE LET first == Index0(choices.val) IN
  IF first.exc # "none" THEN first
  ELSE LET message == Get(first.val, Txt("message"), EmptyDict) IN
  IF message.exc # "none" THEN message
  ELSE Get(message.val, Txt("content"), PyStr(<<P("{"), P("}")>>))

\* st.metric(label, value) accepts None, numbers and strings only.
MetricAccepts(x) == x.k \in {"None", "int", "bool", "float", "str"}

Out(w, label, x) == [w |-> w, label |-> label, v |-> x]

MetricFields ==
  << <<"Total Bananas", Txt("total_count")>>, <<"Unripe", Txt("unripe_count")>>,
     <<"Ripe", Txt("ripe_count")>>, <<"Overripe", Txt("overripe_count")>> >>

\* The `if results:` block of main: four metrics (a missing count shows 0), the
\* success banner and the description, or the generic failure message.
PresentResults(res) ==
  IF Truthy(res)
    THEN IF res.k # "dict" THEN [exc |-> "AttributeError", shown |-> <<>>, errs |-> <<>>]
         ELSE LET val(i) == Get(res, MetricFields[i][2], PyInt(0)).val
                  metric(i) == Out("metric", MetricFields[i][1], val(i))
                  bad == {i \in 1..4 : ~MetricAccepts(val(i))}
                  stop == IF bad = {} THEN 5 ELSE CHOOSE i \in bad : \A j \in bad : i <= j
                  metrics == [i \in 1..(stop - 1) |-> metric(i)]
              IN IF bad # {}
                   THEN [exc |-> "TypeError", shown |-> metrics, errs |-> <<>>]
                   ELSE [exc |-> "none",
                         shown |-> metrics \o
                           << Out("success", "Analysis complete!", PyNone),
                              Out("write", "Detailed Analysis",
                                  Get(res, Txt("detailed_analysis"),
                                      PyStr(<<W("No"), W("detailed"), W("analysis"), W("available.")>>)).val) >>,
                         errs |-> <<>>]
    ELSE [exc |-> "none", shown |-> <<>>, errs |-> <<AnalysisFailure>>]

\* ----------------------------------------------------- configuration
Chars(c) == PyStr(c)
EndpointValues ==
  { <<>>,
    <<"h">>,
    <<"h", "/", "/">>,
    HTTP \o <<"h">>,
    HTTPS \o <<"h", "/">>,
    HTTP,
    <<"/">>,
    <<"H", "T", "T", "P", ":", "/", "/", "h">>,
    <<"h", "t", "t", "p", "s", ":", "/", "h">>,
    <<"m", "y", "h", "o", "s", "t", ".", "e", "x", "a", "m", "p", "l", "e", ".", "c", "o", "m", "/">> }
KeyValues == { <<>>, <<"k">> }
NoSecrets == [x \in {} |-> PyNone]

\* The secrets.toml files of the model: each of azure_endpoint and
\* azure_api_key absent, empty or set; one file also overrides the defaults.
SecretsFiles ==
  { e @@ a : e \in {NoSecrets} \cup {("azure_endpoint" :> Chars(v)) : v \in EndpointValues},
             a \in {NoSecrets} \cup {("azure_api_key" :> Chars(v)) : v \in KeyValues} }
  \cup { ("azure_endpoint" :> Chars(<<"h">>)) @@ ("azure_api_key" :> Chars(<<"k">>))
         @@ ("azure_model" :> Chars(<<"m">>)) @@ ("api_version" :> Chars(<<"1">>)) }

\* ------------------------------------------------------ HTTP responses
Report(t, u, r, o, d) ==
  [total_count |-> t, unripe_count |-> u, ripe_count |-> r, overripe_count |-> o,
   detailed_analysis |-> d]
TwoBananas == <<W("two"), W("bananas")>>
Reports ==
  { Report(t, u, r, o, TwoBananas) : t \in 0..MaxCount, u \in 0..MaxCount,
                                     r \in 0..MaxCount, o \in 0..MaxCount }
  \cup { Report(2, 1, 1, 0, TwoBananas), Report(0, 0, 0, 0, <<>>) }

\* The JSON document a server writes for a report.
ReportText(r) ==
  << P("{"), S(Txt("total_count")), P(":"), N(r.total_count), P(","),
     S(Txt("unripe_count")), P(":"), N(r.unripe_count), P(","),
     S(Txt("ripe_count")), P(":"), N(r.ripe_count), P(","),
     S(Txt("overripe_count")), P(":"), N(r.overripe_count), P(","),
     S(Txt("detailed_analysis")), P(":"), S(r.detailed_analysis), P("}") >>

\* The dict with exactly the five fields of r.
ReportDict(r) ==
  PyDict((Txt("total_count") :> PyInt(r.total_count))
      @@ (Txt("unripe_count") :> PyInt(r.unripe_count))
      @@ (Txt("ripe_count") :> PyInt(r.ripe_count))
      @@ (Txt("overripe_count") :> PyInt(r.overripe_count))
      @@ (Txt("detailed_analysis") :> PyStr(r.detailed_analysis)))

\* {"choices":[{"message":{"content": <c>}}]} around the tokens c of the content value.
EnvelopeText(c) ==
  << P("{"), S(Txt("choices")), P(":"), P("["), P("{"), S(Txt("message")), P(":"),
     P("{"), S(Txt("content")), P(":") >> \o c \o << P("}"), P("}"), P("]"), P("}") >>

NotJson == <<W("not"), W("json")>>
\* content strings that are JSON documents but no complete report
IncompleteContents ==
  { <<P("{"), P("}")>>,
    <<P("["), P("]")>>,
    <<P("["), N(1), P("]")>>,
    <<N(5)>>, <<N(0)>>, <<W("null")>>, <<W("true")>>, <<W("NaN")>>,
    <<S(Txt("hi"))>>,
    <<P("{"), S(Txt("total_count")), P(":"), N(2), P("}")>>,
    <<P("{"), S(Txt("total_count")), P(":"), P("["), N(1), P("]"), P("}")>>,
    <<P("{"), S(Txt("unripe_count")), P(":"), N(1), P(","),
      S(Txt("detailed_analysis")), P(":"), S(TwoBananas), P("}")>> }
\* content strings that are no JSON document
UnparsableContents ==
  { NotJson, <<>>, <<P("{")>>, <<P("{"), S(Txt("total_count")), P(":"), P("}")>>,
    <<P("["), N(1), P(","), P("]")>>,
    ReportText(Report(2, 1, 1, 0, TwoBananas)) \o <<W("thanks")>> }
\* content values that are not strings at all
NonStringContents == { <<W("null")>>, <<N(5)>>, <<P("{"), P("}")>>, <<P("["), P("]")>> }

ReportBodies == { EnvelopeText(<<S(ReportText(r))>>) : r \in Reports }
\* valid JSON bodies without the choices[0].message.content path
ShapelessBodies ==
  { <<P("{"), P("}")>>,
    <<P("{"), S(Txt("choices")), P(":"), P("["), P("]"), P("}")>>,
    <<P("{"), S(Txt("choices")), P(":"), P("["), P("{"), P("}"), P("]"), P("}")>>,
    <<P("{"), S(Txt("choices")), P(":"), P("["), P("{"), S(Txt("message")), P(":"),
      P("{"), P("}"), P("}"), P("]"), P("}")>>,
    <<P("{"), S(Txt("choices")), P(":"), W("null"), P("}")>>,
    <<P("["), P("]")>>,
    <<P("{"), S(Txt("error")), P(":"), S(Txt("overloaded")), P("}")>> }
InvalidBodies == { <<W("Bad"), W("Gateway")>>, <<>> }
Bodies ==
  ReportBodies
  \cup { EnvelopeText(<<S(c)>>) : c \in IncompleteContents \cup UnparsableContents }
  \cup { EnvelopeText(c) : c \in NonStringContents }
  \cup ShapelessBodies \cup InvalidBodies

Statuses == {StatusOK, 204, 500}
NoResponse == [kind |-> "none", status |-> 0, body |-> <<>>]
Responses ==
  { [kind |-> "http", status |-> st, body |-> b] : st \in Statuses, b \in Bodies }
  \cup { [kind |-> e, status |-> 0, body |-> <<>>] : e \in {"Timeout", "ConnectionError"} }

\* --------------------------------------------------------------- state
VARIABLES
  secrets,       \* st.secrets: the keys of secrets.toml
  camera_input,  \* what st.camera_input holds in this run (None, or the frame)
  file_input,    \* what st.file_uploader holds in this run (None, or the file)
  clicked,       \* the user pressed "Process Image" to trigger this run
  pc,            \* position of the script run
  img, img_file, source,   \* the locals of main
  calls,         \* widgets and library calls made so far in this run
  requests,      \* requests.post calls issued in this run
  response,      \* what requests.post gave back
  results,       \* the value analyze_image_with_vision_api returned
  errors,        \* st.error messages of this run
  shown,         \* image, metrics, success and text outputs of this run
  exc            \* the uncaught exception that ended the run, or "none"

vars == << secrets, camera_input, file_input, clicked, pc, img, img_file, source,
           calls, requests, response, results, errors, shown, exc >>

\* get_secret(key, default)
get_secret(key, default) == IF key \in DOMAIN secrets THEN secrets[key] ELSE default

\* The page is opened: the first script run starts with both widgets empty.
Init ==
  /\ secrets \in SecretsFiles
  /\ camera_input = PyNone /\ file_input = PyNone /\ clicked = FALSE
  /\ pc = "capture"
  /\ img = PyNone /\ img_file = PyNone /\ source = "None"
  /\ calls = {} /\ requests = <<>> /\ response = NoResponse
  /\ results = PyNone /\ errors = <<>> /\ shown = <<>> /\ exc = "none"

\* Every script run starts from the top with fresh locals and outputs.
StartRun ==
  /\ pc' = "capture"
  /\ img' = PyNone /\ img_file' = PyNone /\ source' = "None"
  /\ calls' = {} /\ requests' = <<>> /\ response' = NoResponse
  /\ results' = PyNone /\ errors' = <<>> /\ shown' = <<>> /\ exc' = "none"

\* The user takes or clears a picture, or picks or removes a file: Streamlit
\* reruns the script with that widget's new value and the button not pressed.
Interact ==
  /\ pc = "idle"
  /\ \E w \in WidgetValues :
       \/ camera_input' = w /\ UNCHANGED file_input
       \/ file_input' = w /\ UNCHANGED camera_input
  /\ clicked' = FALSE
  /\ StartRun
  /\ UNCHANGED secrets

\* The user presses the "Process Image" button the last run rendered:
\* Streamlit reruns the script with the same widget values and the button True.
Click ==
  /\ pc = "idle"
  /\ "button" \in calls
  /\ clicked' = TRUE
  /\ StartRun
  /\ UNCHANGED <<secrets, camera_input, file_input>>

\* An uncaught exception ends the script run.
Crash(e) == pc' = "idle" /\ exc' = e

\* main, tab1: img, img_file = capture_image(); source = "camera" if img is not None
Capture ==
  /\ pc = "capture"
  /\ \E strict \in BOOLEAN :
       LET r == ReadWidget(camera_input, strict) IN
       /\ calls' = calls \cup {"camera_input"}
       /\ IF r.exc # "none"
            THEN Crash(r.exc) /\ UNCHANGED <<img, img_file, source>>
            ELSE /\ img' = r.img /\ img_file' = r.file
                 /\ source' = IF r.img # PyNone THEN "camera" ELSE "None"
                 /\ pc' = "upload" /\ UNCHANGED exc
  /\ UNCHANGED <<secrets, camera_input, file_input, clicked, requests, response,
                 results, errors, shown>>

\* main, tab2: "Only try upload if capture didn't work"
Upload ==
  /\ pc = "upload"
  /\ IF source = "None"
       THEN \E strict \in BOOLEAN :
              LET r == ReadWidget(file_input, strict) IN
              /\ calls' = calls \cup {"file_uploader"}
              /\ IF r.exc # "none"
                   THEN Crash(r.exc) /\ UNCHANGED <<img, img_file, source>>
                   ELSE /\ img' = r.img /\ img_file' = r.file
                        /\ source' = IF r.img # PyNone THEN "upload" ELSE "None"
                        /\ pc' = "show" /\ UNCHANGED exc
       ELSE pc' = "show" /\ UNCHANGED <<calls, img, img_file, source, exc>>
  /\ UNCHANGED <<secrets, camera_input, file_input, clicked, requests, response,
                 results, errors, shown>>

\* ImageAvailable without the test of the decoded image.
ImageAvailableBufferOnly(image, image_file) == image_file # PyNone

\* main: `if img is not None and img_file is not None`
ImageAvailable(image, image_file) == image # PyNone /\ image_file # PyNone

\* main: "Process the image if available": show it and render the button.
Show ==
  /\ pc = "show"
  /\ IF ImageAvailable(img, img_file)
       THEN /\ shown' = Append(shown, Out("image", "Input Image", img))
            /\ calls' = calls \cup {"button"}
            /\ pc' = IF clicked THEN "analyze" ELSE "idle"
       ELSE pc' = "idle" /\ UNCHANGED <<shown, calls>>
  /\ UNCHANGED <<secrets, camera_input, file_input, clicked, img, img_file, source,
                 requests, response, results, errors, exc>>

\* analyze_image_with_vision_api up to requests.post: either it returns None
\* early (ret), or it raises, or it has built the one request (req).
PrepareRequest(image_file) ==
  LET enc == encode_image_to_base64(image_file)
      endpoint == get_secret("azure_endpoint", PyNone)
      api_key == get_secret("azure_api_key", PyNone)
      model == get_secret("azure_model", PyStr(DefaultModel))
      api_version == get_secret("api_version", PyStr(DefaultApiVersion))
      none == [ret |-> TRUE, exc |-> "none", errs |-> enc.errs, req |-> <<>>]
  IN IF ~Truthy(enc.val) THEN none
     ELSE IF ConfigMissing(endpoint, api_key)
       THEN [none EXCEPT !.errs = <<MissingConfiguration>>]
     ELSE IF endpoint.k # "str" THEN [none EXCEPT !.ret = FALSE, !.exc = "AttributeError"]
     ELSE [ret |-> FALSE, exc |-> "none", errs |-> <<>>,
           req |-> << [url |-> ApiUrl(NormalizeEndpoint(endpoint.v), model.v, api_version.v),
                       api_key |-> api_key,
                       image_url |-> DataUrlPrefix \o enc.val.v,
                       timeout |-> Timeout] >>]

Analyze ==
  /\ pc = "analyze"
  /\ LET a == PrepareRequest(img_file) IN
     /\ calls' = calls \cup {"analyze"}
     /\ errors' = errors \o a.errs
     /\ requests' = requests \o a.req
     /\ IF a.exc # "none" THEN Crash(a.exc)
        ELSE pc' = (IF a.ret THEN "present" ELSE "waiting") /\ UNCHANGED exc
  /\ UNCHANGED <<secrets, camera_input, file_input, clicked, img, img_file, source,
                 response, results, shown>>

\* IsHttpError treating only 4xx and 5xx as errors.
IsHttpErrorFrom400(status_code) == status_code >= 400

\* "Check for HTTP errors"
IsHttpError(status_code) == status_code # StatusOK

\* analyze_image_with_vision_api from the return of requests.post on.  A body
\* that is no JSON makes response.json() raise; whether that exception is a
\* RequestException depends on the installed requests (caught: TRUE).
HandleResponse(r, caught) ==
  LET ret(x, e, c) == [exc |-> "none", val |-> x, errs |-> e, calls |-> c]
      raise(x, c) == [exc |-> x, val |-> PyNone, errs |-> <<>>, calls |-> c]
  IN IF r.kind # "http" THEN ret(PyNone, <<RequestFailure>>, {})
     ELSE IF IsHttpError(r.status) THEN ret(PyNone, <<ApiError(r.status)>>, {})
     ELSE LET result == JsonLoads(PyStr(r.body)) IN
       IF result.exc # "none"
         THEN IF caught THEN ret(PyNone, <<RequestFailure>>, {"response.json"})
              ELSE raise(result.exc, {"response.json"})
       ELSE LET content == ExtractContent(result.val) IN
       IF content.exc # "none" THEN raise(content.exc, {"response.json"})
       ELSE LET parsed == JsonLoads(content.val) IN
       IF parsed.exc = "JSONDecodeError"
         THEN ret(PyNone, <<ParseFailure>>, {"response.json", "json.loads"})
       ELSE IF parsed.exc # "none" THEN raise(parsed.exc, {"response.json", "json.loads"})
       ELSE ret(parsed.val, <<>>, {"response.json", "json.loads"})

\* Respond with one retry: a failed attempt posts the request again.
RespondRetry ==
  /\ pc = "waiting"
  /\ \E r \in Responses, caught \in BOOLEAN :
       LET h == HandleResponse(r, caught) IN
       /\ response' = r
       /\ calls' = calls \cup h.calls
       /\ errors' = errors \o h.errs
       /\ results' = h.val
       /\ requests' = IF h.errs # <<>> THEN requests \o requests ELSE requests
       /\ IF h.exc # "none" THEN Crash(h.exc) ELSE pc' = "present" /\ UNCHANGED exc
  /\ UNCHANGED <<secrets, camera_input, file_input, clicked, img, img_file, source,
                 shown>>

\* The posted request is answered (or fails in transport) and the analyzer returns.
Respond ==
  /\ pc = "waiting"
  /\ \E r \in Responses, caught \in BOOLEAN :
       LET h == HandleResponse(r, caught) IN
       /\ response' = r
       /\ calls' = calls \cup h.calls
       /\ errors' = errors \o h.errs
       /\ results' = h.val
       /\ IF h.exc # "none" THEN Crash(h.exc) ELSE pc' = "present" /\ UNCHANGED exc
  /\ UNCHANGED <<secrets, camera_input, file_input, clicked, img, img_file, source,
                 requests, shown>>

\* main: `if results:` ... else the generic failure message.
Present ==
  /\ pc = "present"
  /\ LET p == PresentResults(results) IN
     /\ shown' = shown \o p.shown
     /\ errors' = errors \o p.errs
     /\ exc' = p.exc
  /\ pc' = "idle"
  /\ UNCHANGED <<secrets, camera_input, file_input, clicked, img, img_file, source,
                 calls, requests, response, results>>

Next == Interact \/ Click \/ Capture \/ Upload \/ Show \/ Analyze \/ Respond \/ Present

Spec == Init /\ [][Next]_vars
\* ---------------------------------------------------------- properties
Range(seq) == {seq[i] : i \in DOMAIN seq}
Analyzed == "analyze" \in calls
Unset(key) == key \notin DOMAIN secrets \/ secrets[key].v = <<>>
ConfigUnset == Unset("azure_endpoint") \/ Unset("azure_api_key")
HttpOk(body) == [kind |-> "http", status |-> StatusOK, body |-> body]

\* C1: whenever the endpoint or the API key is absent or empty, a call of the
\* analyzer returns None, reports the missing-configuration error and issues
\* no HTTP request, whatever image buffer it was given.
C1_MissingConfiguration ==
  (Analyzed /\ ConfigUnset) =>
     /\ pc \in {"present", "idle"}
     /\ results = PyNone
     /\ MissingConfiguration \in Range(errors)
     /\ requests = <<>> /\ response = NoResponse
     /\ exc = "none"

C1_Witness ==
  /\ pc = "present" /\ Analyzed
  /\ "azure_endpoint" \notin DOMAIN secrets /\ "azure_api_key" \in DOMAIN secrets
  /\ results = PyNone /\ errors = <<MissingConfiguration>>

\* The report whose JSON text is the content string of a body of ReportBodies
\* (the content is the 11th token of the envelope, the values the 4th, 8th, ...
\* tokens of the report text).
ReportIn(body) ==
  LET c == body[11].tv IN Report(c[4].tv, c[8].tv, c[12].tv, c[16].tv, c[20].tv)

\* C2: a 200 response whose content string is the JSON encoding of a report
\* makes the analyzer return exactly that report's five fields, whether or
\* not total_count equals the sum of the other counts.
C2_ReportReturned ==
  (response.kind = "http" /\ response.status = StatusOK /\ response.body \in ReportBodies) =>
      /\ ReportIn(response.body) \in Reports
      /\ results = ReportDict(ReportIn(response.body))
      /\ exc = "none"
      /\ ParseFailure \notin Range(errors)

C2_Witness ==
  /\ pc = "present"
  /\ response = HttpOk(EnvelopeText(<<S(ReportText(Report(1, 1, 1, 1, TwoBananas)))>>))
  /\ results = ReportDict(Report(1, 1, 1, 1, TwoBananas))

\* C3: a response whose status is not 200 (so every non-2xx status) makes the
\* analyzer return None with "API Error: <status>" reported, whatever the
\* body holds; neither response.json() nor json.loads is called on it.
C3_HttpErrorStatus ==
  (response.kind = "http" /\ response.status # StatusOK) =>
     /\ results = PyNone
     /\ errors # <<>> /\ errors[1] = ApiError(response.status)
     /\ "response.json" \notin calls /\ "json.loads" \notin calls
     /\ exc = "none"

C3_Witness ==
  /\ pc = "present" /\ response.kind = "http" /\ response.status = 500
  /\ response.body \in ReportBodies
  /\ results = PyNone /\ errors = <<ApiError(500)>>
\* C4: a 200 response whose content cannot be parsed as JSON (the text
\* "not json", any other text that is no JSON document, or a content value
\* that is no text at all, such as null) makes the analyzer return None with
\* the parse error reported, and no exception escapes.
C4_UnparsableContent ==
  (response \in { HttpOk(EnvelopeText(<<S(c)>>)) : c \in UnparsableContents }
                \cup { HttpOk(EnvelopeText(<<W("null")>>)) }) =>
     /\ results = PyNone
     /\ ParseFailure \in Range(errors)
     /\ exc = "none"

\* no choices key, an empty choices list, a choice without message, a message
\* without content
MissingPathBodies ==
  { <<P("{"), P("}")>>,
    <<P("{"), S(Txt("choices")), P(":"), P("["), P("]"), P("}")>>,
    <<P("{"), S(Txt("choices")), P(":"), P("["), P("{"), P("}"), P("]"), P("}")>>,
    <<P("{"), S(Txt("choices")), P(":"), P("["), P("{"), S(Txt("message")), P(":"),
      P("{"), P("}"), P("}"), P("]"), P("}")>> }

\* C5: a run that got a 200 response whose JSON body lacks
\* choices[0].message.content ends with None returned by the analyzer, an
\* error message displayed and no uncaught exception.
C5_MissingEnvelope ==
  (pc = "idle" /\ response.kind = "http" /\ response.status = StatusOK
     /\ response.body \in MissingPathBodies) =>
     /\ results = PyNone
     /\ errors # <<>>
     /\ exc = "none"

\* The endpoint the run was configured with, and the base of the URL posted.
ConfiguredEndpoint == secrets["azure_endpoint"].v
UrlSuffix ==
  DeploymentsPath \o get_secret("azure_model", PyStr(DefaultModel)).v
    \o CompletionsPath \o get_secret("api_version", PyStr(DefaultApiVersion)).v
UrlBase(url) == SubSeq(url, 1, Len(url) - Len(UrlSuffix))
HasScheme(e) == StartsWith(e, HTTP) \/ StartsWith(e, HTTPS)
SchemeOf(e) == IF StartsWith(e, HTTPS) THEN HTTPS ELSE IF StartsWith(e, HTTP) THEN HTTP ELSE <<>>
\* b is e without its trailing slashes
IsStripped(b, e) ==
  /\ Len(b) <= Len(e) /\ SubSeq(e, 1, Len(b)) = b
  /\ \A i \in (Len(b) + 1)..Len(e) : e[i] = "/"
  /\ (b = <<>> \/ b[Len(b)] # "/")
\* something other than "/" follows the scheme (or, without one, is in e at all)
HasHost(e) == \E i \in (Len(SchemeOf(e)) + 1)..Len(e) : e[i] # "/"
MyHost == <<"m", "y", "h", "o", "s", "t", ".", "e", "x", "a", "m", "p", "l", "e", ".", "c", "o", "m", "/">>
MyHostBase == <<"h", "t", "t", "p", "s", ":", "/", "/", "m", "y", "h", "o", "s", "t", ".", "e", "x", "a", "m", "p", "l", "e", ".", "c", "o", "m">>

\* The base of the posted URL is the endpoint, "https://" put in front when it
\* starts with neither scheme, without its trailing slashes.
BaseAsSpecified(req) ==
  LET e == ConfiguredEndpoint
      base == UrlBase(req.url)
  IN /\ req.url = base \o UrlSuffix
     /\ IsStripped(base, IF HasScheme(e) THEN e ELSE HTTPS \o e)
     /\ (e = MyHost => base = MyHostBase)

\* C6 as claimed, read off the request just posted (pc = "waiting"): for
\* every configured endpoint the base is as specified, an endpoint that
\* carries a scheme keeps it, and normalizing the base again changes nothing.
C6_NormalizationAnyEndpoint ==
  pc = "waiting" => \A i \in DOMAIN requests :
    LET e == ConfiguredEndpoint
        base == UrlBase(requests[i].url)
    IN /\ BaseAsSpecified(requests[i])
       /\ (HasScheme(e) => StartsWith(base, SchemeOf(e)))
       /\ NormalizeEndpoint(base) = base

\* C6 amended, read off the request just posted: the base is as specified
\* for every configured endpoint; the scheme is kept (or "https://" is put in
\* front) and normalizing the base again changes nothing for every endpoint
\* that has a character other than "/" after its scheme.
C6_Normalization ==
  pc = "waiting" => \A i \in DOMAIN requests :
    LET e == ConfiguredEndpoint
        base == UrlBase(requests[i].url)
    IN /\ BaseAsSpecified(requests[i])
       /\ HasHost(e) =>
            /\ HasScheme(e) => StartsWith(base, SchemeOf(e))
            /\ ~HasScheme(e) => StartsWith(base, HTTPS \o <<e[1]>>)
            /\ NormalizeEndpoint(base) = base

C6_Witness ==
  /\ pc = "waiting" /\ Len(requests) = 1
  /\ ConfiguredEndpoint = MyHost
  /\ requests[1].url = MyHostBase \o DeploymentsPath \o DefaultModel
                         \o CompletionsPath \o DefaultApiVersion
ImageUrlOf(file) == DataUrlPrefix \o B64Encode(file.v)

\* A frame was taken: the camera widget holds a buffer with bytes in it.
CameraFramePresent == camera_input # PyNone /\ camera_input.v # <<>>

\* C7: in every run that reaches the analyzer with both a camera frame and an
\* uploaded file present, the upload widget was not consulted and the buffer
\* handed to the analyzer, and sent in the request, is the camera frame.
C7_CameraPriority ==
  (CameraFramePresent /\ file_input # PyNone /\ Analyzed) =>
     /\ "file_uploader" \notin calls
     /\ img_file = camera_input
     /\ \A i \in DOMAIN requests : requests[i].image_url = ImageUrlOf(camera_input)

\* C8: a run issues at most one HTTP request, none unless the button it
\* rendered was pressed, and still exactly one after the request has failed.
C8_AtMostOneRequest ==
  /\ Len(requests) <= 1
  /\ requests # <<>> => (clicked /\ "button" \in calls /\ Analyzed)
  /\ response # NoResponse => Len(requests) = 1

C8_Witness ==
  /\ pc = "idle" /\ clicked /\ Len(requests) = 1
  /\ response.kind = "Timeout"
  /\ results = PyNone /\ errors = <<RequestFailure, AnalysisFailure>>

ReportKeys ==
  { Txt("total_count"), Txt("unripe_count"), Txt("ripe_count"), Txt("overripe_count"),
    Txt("detailed_analysis") }
IsCompleteReport(x) == x.k = "dict" /\ ReportKeys \subseteq DOMAIN x.v
Shows(w) == \E i \in DOMAIN shown : shown[i].w = w
PresenterRan == pc = "idle" /\ Analyzed /\ exc = "none"

\* C9: a run in which the analyzer returned and the presenter finished ends
\* either with the generic failure message and no counts, or with the success
\* banner and the four counts of a result that has all five fields.
C9_AllOrNothing ==
  PresenterRan =>
     \/ /\ AnalysisFailure \in Range(errors)
        /\ ~Shows("metric") /\ ~Shows("success")
     \/ /\ IsCompleteReport(results)
        /\ Shows("success")
        /\ \A i \in 1..4 : Out("metric", MetricFields[i][1], results.v[MetricFields[i][2]])
                             \in Range(shown)

Undecodable(file) == \A strict \in BOOLEAN : Imdecode(file.v, strict).val = PyNone

\* C10: the analyzer runs, and a request is posted, only for a buffer that is
\* present and decoded to the non-null image shown; when the selected buffer
\* does not decode, nothing is shown and nothing is analyzed or requested.
C10_NoNullImage ==
  /\ Analyzed =>
       /\ img # PyNone /\ img_file # PyNone
       /\ Imdecode(img_file.v, TRUE) = Ok(img)
  /\ \A i \in DOMAIN shown : shown[i].w = "image" => (shown[i].v # PyNone /\ shown[i].v = img)
  /\ \A i \in DOMAIN requests :
       /\ img_file # PyNone /\ ~Undecodable(img_file)
       /\ requests[i].image_url = ImageUrlOf(img_file)
  /\ (img_file # PyNone /\ Undecodable(img_file)) =>
       /\ shown = <<>> /\ requests = <<>> /\ ~Analyzed /\ "button" \notin calls

C10_Witness ==
  /\ pc = "idle" /\ exc = "none"
  /\ camera_input # PyNone /\ Undecodable(camera_input)
  /\ img_file = file_input /\ img_file # PyNone /\ Undecodable(img_file)
  /\ shown = <<>> /\ requests = <<>>
====
